---- MODULE Spec2Model ----
(***************************************************************************)
(* Model of visiting-card-ocr.py: ImageTextExtractor.execute and the       *)
(* methods it calls.  Names are tuples of one-character strings, a path    *)
(* is the tuple of its components (os.path.join), the disk is a function   *)
(* from paths to "dir" / "file".                                           *)
(***************************************************************************)
EXTENDS Integers, Sequences, FiniteSets, TLC

VARIABLES
    disk,         \* the file system below data_dir: path -> "dir" | "file"
    disk0,        \* the file system when execute started (history)
    outfiles,     \* the files below output_dir: path -> written content
    pc,           \* position of the script inside execute
    todo,         \* entries of os.listdir(data_dir) not yet iterated
    folder,       \* loop variable of execute
    subtodo,      \* entries of os.listdir(folder_path) not yet iterated
    subfolder,    \* loop variable of process_folder (outer loop)
    filetodo,     \* entries of os.listdir(subfolder_path) not yet iterated
    data_frames,  \* local list of process_folder
    result_df,    \* local of execute
    attempts,     \* top-level entry -> number of times its try block was entered
    failed,       \* top-level entry -> stage whose error was caught, or "none"
    saved,        \* top-level entries whose save_to_excel returned
    ocr_calls     \* history of extract_text_from_image calls: <<path, outcome>>

vars == <<disk, disk0, outfiles, pc, todo, folder, subtodo, subfolder, filetodo,
          data_frames, result_df, attempts, failed, saved, ocr_calls>>

-----------------------------------------------------------------------------
(* Bounds *)

MaxLen == 3

-----------------------------------------------------------------------------
(* Names and strings *)

data_dir == <<"l", "o", "t">>

output_dir == <<"o", "u", "t">>

OutputSuffix == <<"_", "r", "a", "w", "_", "t", "e", "x", "t", "_", "e", "x", "t", "r",
  "a", "c", "t", "e", "d", ".", "x", "l", "s", "x">>

IMAGE_EXTENSIONS == { <<".", "p", "n", "g">>, <<".", "j", "p", "g">>,
  <<".", "j", "p", "e", "g">>, <<".", "b", "m", "p">>, <<".", "g", "i", "f">> }

UpperToLower == [c \in {"A", "B", "C", "D", "E", "F", "G", "H", "I", "J", "K", "L", "M",
                        "N", "O", "P", "Q", "R", "S", "T", "U", "V", "W", "X", "Y", "Z"} |->
  CASE c = "A" -> "a" [] c = "B" -> "b" [] c = "C" -> "c" [] c = "D" -> "d"
    [] c = "E" -> "e" [] c = "F" -> "f" [] c = "G" -> "g" [] c = "H" -> "h"
    [] c = "I" -> "i" [] c = "J" -> "j" [] c = "K" -> "k" [] c = "L" -> "l"
    [] c = "M" -> "m" [] c = "N" -> "n" [] c = "O" -> "o" [] c = "P" -> "p"
    [] c = "Q" -> "q" [] c = "R" -> "r" [] c = "S" -> "s" [] c = "T" -> "t"
    [] c = "U" -> "u" [] c = "V" -> "v" [] c = "W" -> "w" [] c = "X" -> "x"
    [] c = "Y" -> "y" [] c = "Z" -> "z"]

\* str.lower()
lower(s) == [i \in 1..Len(s) |-> IF s[i] \in DOMAIN UpperToLower THEN UpperToLower[s[i]] ELSE s[i]]

\* str.endswith(suffix)
endswith(s, suffix) ==
  /\ Len(s) >= Len(suffix)
  /\ SubSeq(s, Len(s) - Len(suffix) + 1, Len(s)) = suffix

\* the allow-list compared without its dots
IsImageNameNoDot(file_name) == \E ext \in IMAGE_EXTENSIONS : endswith(lower(file_name), Tail(ext))

\* file_name.lower().endswith(('.png', '.jpg', '.jpeg', '.bmp', '.gif'))
IsImageName(file_name) == \E ext \in IMAGE_EXTENSIONS : endswith(lower(file_name), ext)

-----------------------------------------------------------------------------
(* File system *)

\* os.path.join(path, name)
join(path, name) == Append(path, name)

\* os.path.exists(path) in the place of os.path.isdir(path)
exists(path) == path \in DOMAIN disk

\* os.path.isdir(path)
isdir(path) == path \in DOMAIN disk /\ disk[path] = "dir"

IsPrefix(p, q) == Len(p) <= Len(q) /\ SubSeq(q, 1, Len(p)) = p

\* os.listdir(path): the names of the entries directly in path
listdir(path) == { q[Len(q)] : q \in { r \in DOMAIN disk : Len(r) = Len(path) + 1 /\ IsPrefix(path, r) } }

\* the paths of the tree rooted at path
Tree(d, path) == { q \in DOMAIN d : IsPrefix(path, q) }

\* the disk without the paths of gone
Remove(gone) == [q \in DOMAIN disk \ gone |-> disk[q]]

\* only the contents of path are removed, the directory stays
rmtree_contents_only(path) == Remove(Tree(disk, path) \ {path})

\* shutil.rmtree(path): the directory and everything below it is removed
rmtree(path) == Remove(Tree(disk, path))

\* what an interrupted shutil.rmtree(path) can have removed: entries strictly
\* below path, a directory only together with everything below it
PartialRemovals(path) ==
  { g \in SUBSET (Tree(disk, path) \ {path}) :
      \A q \in g : \A r \in Tree(disk, q) : r \in g }

-----------------------------------------------------------------------------
(* Tables *)

Columns == <<"image_url", "raw_text">>

\* pd.DataFrame(columns=["image_url", "raw_text"])
EmptyFrame == [columns |-> Columns, rows |-> <<>>]

\* extract_text_from_image, given the service's response.text_annotations
extract_text_from_image(annotations) ==
  IF annotations # <<>> THEN annotations[1] ELSE ""

\* process_image, given the service's response
process_image(image_path, annotations) ==
  [columns |-> Columns,
   rows |-> << [image_url |-> image_path, raw_text |-> extract_text_from_image(annotations)] >>]

RECURSIVE concat_rows(_)
concat_rows(frames) ==
  IF frames = <<>> THEN <<>> ELSE Head(frames).rows \o concat_rows(Tail(frames))

\* pd.DataFrame() for the empty case: a table without columns
process_folder_result_no_columns(frames) ==
  IF frames # <<>> THEN [columns |-> Columns, rows |-> concat_rows(frames)]
  ELSE [columns |-> <<>>, rows |-> <<>>]

\* the return value of process_folder for the collected data_frames
process_folder_result(frames) ==
  IF frames # <<>> THEN [columns |-> Columns, rows |-> concat_rows(frames)] ELSE EmptyFrame

\* the lower-cased file name as the key
dedup_key_basename(row) == lower(row.image_url[Len(row.image_url)])

\* the key drop_duplicates compares: subset="image_url"
dedup_key(row) == row.image_url

\* keep="last"
RECURSIVE drop_duplicates_keep_last(_, _)
drop_duplicates_keep_last(rows, seen) ==
  IF rows = <<>> THEN <<>>
  ELSE IF \E i \in 2..Len(rows) : dedup_key(rows[i]) = dedup_key(Head(rows))
       THEN drop_duplicates_keep_last(Tail(rows), seen)
       ELSE <<Head(rows)>> \o drop_duplicates_keep_last(Tail(rows), seen)

RECURSIVE drop_duplicates(_, _)
drop_duplicates(rows, seen) ==
  IF rows = <<>> THEN <<>>
  ELSE IF dedup_key(Head(rows)) \in seen
       THEN drop_duplicates(Tail(rows), seen)
       ELSE <<Head(rows)>> \o drop_duplicates(Tail(rows), seen \cup {dedup_key(Head(rows))})

\* df.drop_duplicates(subset="image_url", keep="first").reset_index(drop=True)
clean_duplicates(df) == [columns |-> df.columns, rows |-> drop_duplicates(df.rows, {})]

\* os.path.join(self.output_dir, f"{folder}_raw_text_extracted.xlsx")
output_file(f) == <<output_dir, f \o OutputSuffix>>

-----------------------------------------------------------------------------
(* The disks execute is started on *)

A == <<"A">>

B == <<"B">>

C == <<"c", ".", "p", "n", "g">>

s1 == <<"s", "1">>

s2 == <<"s", "2">>

x_jpg == <<"x", ".", "j", "p", "g">>

y_png == <<"y", ".", "p", "n", "g">>

y_PNG == <<"y", ".", "P", "N", "G">>

n_txt == <<"n", ".", "t", "x", "t">>

b_Jpeg == <<"b", ".", "J", "p", "e", "g">>

d_gif == <<"d", ".", "g", "i", "f">>

png == <<"p", "n", "g">>

TopNames == {A, B, C}

\* the entries of a top-level entry of the given shape, as <<path, kind>>
ShapeEntries(top, shape) ==
  CASE shape = "absent" -> { }
    [] shape = "file" -> { <<top, "file">> }
    [] shape = "empty" -> { <<top, "dir">> }
    [] shape = "single" ->
         { <<top, "dir">>,
           <<join(top, s1), "dir">>, <<join(join(top, s1), x_jpg), "file">> }
    [] shape = "example" ->
         { <<top, "dir">>,
           <<join(top, s1), "dir">>, <<join(join(top, s1), x_jpg), "file">>,
           <<join(join(top, s1), y_png), "file">>,
           <<join(top, s2), "dir">>, <<join(join(top, s2), y_PNG), "file">> }
    [] shape = "mixed" ->
         { <<top, "dir">>,
           <<join(top, y_png), "file">>,
           <<join(top, s1), "dir">>, <<join(join(top, s1), n_txt), "file">>,
           <<join(join(top, s1), b_Jpeg), "file">>, <<join(join(top, s1), png), "file">>,
           <<join(join(top, s1), d_gif), "dir">>,
           <<join(join(join(top, s1), d_gif), x_jpg), "file">> }

DiskOf(entries) == [p \in { e[1] : e \in entries } |-> (CHOOSE e \in entries : e[1] = p)[2]]

\* the shape of each top-level name, for each starting disk
Layouts ==
  { [t \in TopNames |-> CASE t = A -> "example" [] t = B -> "absent" [] t = C -> "file"],
    [t \in TopNames |-> CASE t = A -> "mixed" [] t = B -> "empty" [] t = C -> "file"],
    [t \in TopNames |-> CASE t = A -> "single" [] t = B -> "single" [] t = C -> "empty"],
    [t \in TopNames |-> CASE t = A -> "file" [] t = B -> "single" [] t = C -> "absent"] }

Disks ==
  { DiskOf({ <<(<<data_dir>>), "dir">> } \cup
           UNION { ShapeEntries(<<data_dir, t>>, k[t]) : t \in TopNames }) :
    k \in Layouts }

\* text_annotations the service can answer with
Responses == { <<>>, <<"t1", "t2">> }

-----------------------------------------------------------------------------
(* execute *)

Init ==
  /\ disk \in Disks
  /\ disk0 = disk
  /\ outfiles = << >>
  /\ pc = "start"
  /\ todo = {}
  /\ folder = <<>>
  /\ subtodo = {}
  /\ subfolder = <<>>
  /\ filetodo = {}
  /\ data_frames = <<>>
  /\ result_df = EmptyFrame
  /\ attempts = [t \in TopNames |-> 0]
  /\ failed = [t \in TopNames |-> "none"]
  /\ saved = {}
  /\ ocr_calls = {}

folder_path == join(<<data_dir>>, folder)

subfolder_path == join(folder_path, subfolder)

\* a try block that ends before shutil.rmtree: an export error is printed
\* and the deletion still runs
CatchFolderErrorThenDelete(stage) ==
  /\ failed' = [failed EXCEPT ![folder] = stage]
  /\ pc' = IF stage = "export" THEN "rmtree" ELSE "main"

\* no except clause: the error leaves execute
CatchFolderErrorReraise(stage) ==
  /\ failed' = [failed EXCEPT ![folder] = stage]
  /\ pc' = "crashed"

\* the except clause of execute: the error is printed, the loop goes on
CatchFolderError(stage) ==
  /\ failed' = [failed EXCEPT ![folder] = stage]
  /\ pc' = "main"

\* line 107: os.listdir(self.data_dir) returns
ListDataDir ==
  /\ pc = "start"
  /\ todo' = listdir(<<data_dir>>)
  /\ pc' = "main"
  /\ UNCHANGED <<disk, disk0, outfiles, folder, subtodo, subfolder, filetodo, data_frames,
                 result_df, attempts, failed, saved, ocr_calls>>

\* line 107: os.listdir(self.data_dir) raises, outside any try
ListDataDirFails ==
  /\ pc = "start"
  /\ pc' = "crashed"
  /\ UNCHANGED <<disk, disk0, outfiles, todo, folder, subtodo, subfolder, filetodo,
                 data_frames, result_df, attempts, failed, saved, ocr_calls>>

\* lines 108-110: an entry that is not a directory
SkipEntry ==
  /\ pc = "main"
  /\ \E e \in todo :
       /\ ~isdir(join(<<data_dir>>, e))
       /\ todo' = todo \ {e}
       /\ folder' = e
  /\ UNCHANGED <<disk, disk0, outfiles, pc, subtodo, subfolder, filetodo, data_frames,
                 result_df, attempts, failed, saved, ocr_calls>>

\* lines 108-113: a directory, the try block is entered
EnterFolder ==
  /\ pc = "main"
  /\ \E e \in todo :
       /\ isdir(join(<<data_dir>>, e))
       /\ todo' = todo \ {e}
       /\ folder' = e
       /\ attempts' = [attempts EXCEPT ![e] = @ + 1]
  /\ pc' = "list_folder"
  /\ UNCHANGED <<disk, disk0, outfiles, subtodo, subfolder, filetodo, data_frames,
                 result_df, failed, saved, ocr_calls>>

\* lines 64-65: os.listdir(folder_path) returns
ListFolder ==
  /\ pc = "list_folder"
  /\ data_frames' = <<>>
  /\ subtodo' = listdir(folder_path)
  /\ pc' = "subfolders"
  /\ UNCHANGED <<disk, disk0, outfiles, todo, folder, subfolder, filetodo, result_df,
                 attempts, failed, saved, ocr_calls>>

\* line 65: os.listdir(folder_path) raises
ListFolderFails ==
  /\ pc = "list_folder"
  /\ CatchFolderError("walk")
  /\ UNCHANGED <<disk, disk0, outfiles, todo, folder, subtodo, subfolder, filetodo,
                 data_frames, result_df, attempts, saved, ocr_calls>>

\* lines 66-68: an entry of the folder that is not a directory
SkipSubEntry ==
  /\ pc = "subfolders"
  /\ \E s \in subtodo :
       /\ ~isdir(join(folder_path, s))
       /\ subtodo' = subtodo \ {s}
       /\ subfolder' = s
  /\ UNCHANGED <<disk, disk0, outfiles, pc, todo, folder, filetodo, data_frames, result_df,
                 attempts, failed, saved, ocr_calls>>

\* lines 66-70: a subdirectory, os.listdir(subfolder_path) returns
ListSubfolder ==
  /\ pc = "subfolders"
  /\ \E s \in subtodo :
       /\ isdir(join(folder_path, s))
       /\ subtodo' = subtodo \ {s}
       /\ subfolder' = s
       /\ filetodo' = listdir(join(folder_path, s))
  /\ pc' = "files"
  /\ UNCHANGED <<disk, disk0, outfiles, todo, folder, data_frames, result_df, attempts,
                 failed, saved, ocr_calls>>

\* line 70: os.listdir(subfolder_path) raises
ListSubfolderFails ==
  /\ pc = "subfolders"
  /\ \E s \in subtodo :
       /\ isdir(join(folder_path, s))
       /\ subtodo' = subtodo \ {s}
       /\ subfolder' = s
  /\ CatchFolderError("walk")
  /\ UNCHANGED <<disk, disk0, outfiles, todo, folder, filetodo, data_frames, result_df,
                 attempts, saved, ocr_calls>>

\* lines 71-72: a name outside the allow-list
SkipFile ==
  /\ pc = "files"
  /\ \E n \in filetodo :
       /\ ~IsImageName(n)
       /\ filetodo' = filetodo \ {n}
  /\ UNCHANGED <<disk, disk0, outfiles, pc, todo, folder, subtodo, subfolder, data_frames,
                 result_df, attempts, failed, saved, ocr_calls>>

\* lines 74-76: process_image returns, its frame is appended
ProcessImage ==
  /\ pc = "files"
  /\ \E n \in filetodo :
       /\ IsImageName(n)
       /\ disk[join(subfolder_path, n)] = "file"
       /\ filetodo' = filetodo \ {n}
       /\ \E annotations \in Responses :
            /\ data_frames' = Append(data_frames, process_image(join(subfolder_path, n), annotations))
            /\ ocr_calls' = ocr_calls \cup { <<join(subfolder_path, n), "ok", annotations>> }
  /\ UNCHANGED <<disk, disk0, outfiles, pc, todo, folder, subtodo, subfolder, result_df,
                 attempts, failed, saved>>

\* the except clause appends a record with empty text
ProcessImageFailsEmptyRecord ==
  /\ pc = "files"
  /\ \E n \in filetodo :
       /\ IsImageName(n)
       /\ filetodo' = filetodo \ {n}
       /\ data_frames' = Append(data_frames, process_image(join(subfolder_path, n), <<>>))
       /\ ocr_calls' = ocr_calls \cup { <<join(subfolder_path, n), "error", <<>>>> }
  /\ UNCHANGED <<disk, disk0, outfiles, pc, todo, folder, subtodo, subfolder,
                 result_df, attempts, failed, saved>>

\* lines 74-78: io.open, read or text_detection raises; the error is printed
ProcessImageFails ==
  /\ pc = "files"
  /\ \E n \in filetodo :
       /\ IsImageName(n)
       /\ filetodo' = filetodo \ {n}
       /\ ocr_calls' = ocr_calls \cup { <<join(subfolder_path, n), "error", <<>>>> }
  /\ UNCHANGED <<disk, disk0, outfiles, pc, todo, folder, subtodo, subfolder, data_frames,
                 result_df, attempts, failed, saved>>

\* line 70: the inner loop is exhausted
EndFiles ==
  /\ pc = "files"
  /\ filetodo = {}
  /\ pc' = "subfolders"
  /\ UNCHANGED <<disk, disk0, outfiles, todo, folder, subtodo, subfolder, filetodo,
                 data_frames, result_df, attempts, failed, saved, ocr_calls>>

\* lines 80-82 and 114-115: process_folder returns, clean_duplicates is applied
EndWalk ==
  /\ pc = "subfolders"
  /\ subtodo = {}
  /\ result_df' = clean_duplicates(process_folder_result(data_frames))
  /\ pc' = "save"
  /\ UNCHANGED <<disk, disk0, outfiles, todo, folder, subtodo, subfolder, filetodo,
                 data_frames, attempts, failed, saved, ocr_calls>>

\* lines 117-118: save_to_excel returns
SaveToExcel ==
  /\ pc = "save"
  /\ outfiles' = (output_file(folder) :> [complete |-> TRUE, df |-> result_df]) @@ outfiles
  /\ saved' = saved \cup {folder}
  /\ pc' = "rmtree"
  /\ UNCHANGED <<disk, disk0, todo, folder, subtodo, subfolder, filetodo, data_frames,
                 result_df, attempts, failed, ocr_calls>>

\* lines 102-103: os.makedirs or df.to_excel raises; to_excel may have left
\* an incomplete file behind
SaveToExcelFails ==
  /\ pc = "save"
  /\ \/ outfiles' = outfiles
     \/ outfiles' = (output_file(folder) :> [complete |-> FALSE, df |-> EmptyFrame]) @@ outfiles
  /\ CatchFolderError("export")
  /\ UNCHANGED <<disk, disk0, todo, folder, subtodo, subfolder, filetodo, data_frames,
                 result_df, attempts, saved, ocr_calls>>

\* line 120: shutil.rmtree(folder_path) returns
Rmtree ==
  /\ pc = "rmtree"
  /\ disk' = rmtree(folder_path)
  /\ pc' = "main"
  /\ UNCHANGED <<disk0, outfiles, todo, folder, subtodo, subfolder, filetodo, data_frames,
                 result_df, attempts, failed, saved, ocr_calls>>

\* line 120: shutil.rmtree(folder_path) raises, part of the tree may be gone
RmtreeFails ==
  /\ pc = "rmtree"
  /\ \E gone \in PartialRemovals(folder_path) : disk' = Remove(gone)
  /\ CatchFolderError("cleanup")
  /\ UNCHANGED <<disk0, outfiles, todo, folder, subtodo, subfolder, filetodo, data_frames,
                 result_df, attempts, saved, ocr_calls>>

\* line 107: the loop of execute is exhausted, execute returns
Finish ==
  /\ pc = "main"
  /\ todo = {}
  /\ pc' = "done"
  /\ UNCHANGED <<disk, disk0, outfiles, todo, folder, subtodo, subfolder, filetodo,
                 data_frames, result_df, attempts, failed, saved, ocr_calls>>

Next ==
  \/ ListDataDir
  \/ ListDataDirFails
  \/ SkipEntry
  \/ EnterFolder
  \/ ListFolder
  \/ ListFolderFails
  \/ SkipSubEntry
  \/ ListSubfolder
  \/ ListSubfolderFails
  \/ SkipFile
  \/ ProcessImage
  \/ ProcessImageFails
  \/ EndFiles
  \/ EndWalk
  \/ SaveToExcel
  \/ SaveToExcelFails
  \/ Rmtree
  \/ RmtreeFails
  \/ Finish

Spec == Init /\ [][Next]_vars

\* the script is sequential and blocking: it always takes its next step
FairSpec == Spec /\ WF_vars(Next)

-----------------------------------------------------------------------------
(* clean_duplicates on arbitrary tables *)

BoundedSeq(S, n) == UNION { [1..k -> S] : k \in 0..n }

DedupPaths == { <<data_dir, A, s1, x_jpg>>, <<data_dir, A, s1, y_png>>, <<data_dir, A, s2, y_PNG>> }

DedupFrames == { process_image(p, a) : p \in DedupPaths, a \in Responses }

DedupInit ==
  /\ data_frames \in BoundedSeq(DedupFrames, MaxLen)
  /\ result_df = EmptyFrame
  /\ pc = "dedup"
  /\ disk = DiskOf({ <<(<<data_dir>>), "dir">> })
  /\ disk0 = disk
  /\ outfiles = << >>
  /\ todo = {}
  /\ folder = <<>>
  /\ subtodo = {}
  /\ subfolder = <<>>
  /\ filetodo = {}
  /\ attempts = [t \in TopNames |-> 0]
  /\ failed = [t \in TopNames |-> "none"]
  /\ saved = {}
  /\ ocr_calls = {}

\* line 115: clean_duplicates applied to the aggregated table
ApplyCleanDuplicates ==
  /\ pc = "dedup"
  /\ result_df' = clean_duplicates(process_folder_result(data_frames))
  /\ pc' = "dedup_once"
  /\ UNCHANGED <<disk, disk0, outfiles, todo, folder, subtodo, subfolder, filetodo,
                 data_frames, attempts, failed, saved, ocr_calls>>

\* clean_duplicates applied to its own result
ApplyCleanDuplicatesAgain ==
  /\ pc = "dedup_once"
  /\ result_df' = clean_duplicates(result_df)
  /\ pc' = "dedup_twice"
  /\ UNCHANGED <<disk, disk0, outfiles, todo, folder, subtodo, subfolder, filetodo,
                 data_frames, attempts, failed, saved, ocr_calls>>

DedupNext ==
  \/ ApplyCleanDuplicates
  \/ ApplyCleanDuplicatesAgain

DedupSpec == DedupInit /\ [][DedupNext]_vars

-----------------------------------------------------------------------------
(* Properties *)

TopPath(t) == <<data_dir, t>>

WasDir(t) == TopPath(t) \in DOMAIN disk0 /\ disk0[TopPath(t)] = "dir"

WasFile(t) == TopPath(t) \in DOMAIN disk0 /\ disk0[TopPath(t)] = "file"

\* the tree of t is as it was when execute started
Untouched(t) ==
  /\ Tree(disk, TopPath(t)) = Tree(disk0, TopPath(t))
  /\ \A q \in Tree(disk0, TopPath(t)) : disk[q] = disk0[q]

\* nothing of t is left on disk
Gone(t) == Tree(disk, TopPath(t)) = {}

Exported(t) == output_file(t) \in DOMAIN outfiles /\ outfiles[output_file(t)].complete

\* execute has entered the try block of t and left it again
Handled(t) ==
  /\ attempts[t] >= 1
  /\ ~(folder = t /\ pc \in {"list_folder", "subfolders", "files", "save", "rmtree"})

\* the extract_text_from_image calls made for files below t
CallsOf(t) == { c \in ocr_calls : IsPrefix(TopPath(t), c[1]) }

OkCallsOf(t) == { c \in CallsOf(t) : c[2] = "ok" }

UniqueUrls(rows) == \A i, j \in 1..Len(rows) : rows[i].image_url = rows[j].image_url => i = j

\* rows holds exactly one record per successful call of calls, with the
\* first annotation or the empty string as its text
RecordsOf(rows, calls) ==
  /\ UniqueUrls(rows)
  /\ { r.image_url : r \in { rows[i] : i \in 1..Len(rows) } } = { c[1] : c \in calls }
  /\ \A i \in 1..Len(rows) : \E c \in calls :
       /\ c[1] = rows[i].image_url
       /\ rows[i].raw_text = (IF c[3] = <<>> THEN "" ELSE c[3][1])

\* C1: a top-level folder is deleted, fully or partly, and shutil.rmtree is
\* started, only after save_to_excel has returned for that folder
C1_DeleteOnlyAfterExport ==
  /\ \A t \in TopNames : ~Untouched(t) => (t \in saved /\ Exported(t))
  /\ pc = "rmtree" => (folder \in saved /\ Exported(folder))

C1_Witness ==
  \E t \in TopNames : WasDir(t) /\ ~Untouched(t) /\ t \in saved /\ failed[t] = "cleanup"

\* C2 as stated: after a folder-level error in walking, export or cleanup the
\* folder is on disk unchanged and no output file exists for it
C2_FailedFolderUntouchedUnexported ==
  \A t \in TopNames :
    (Handled(t) /\ failed[t] # "none") =>
      (Untouched(t) /\ output_file(t) \notin DOMAIN outfiles)

\* C2 amended: after an error in walking or export the folder is on disk
\* unchanged and no complete output file exists for it (none at all after a
\* walking error); after an error in cleanup the complete output file exists
\* and the top-level directory itself is still there
C2_FailedFolderByStage ==
  \A t \in TopNames :
    Handled(t) =>
      /\ failed[t] \in {"walk", "export"} => (Untouched(t) /\ ~Exported(t))
      /\ failed[t] = "walk" => output_file(t) \notin DOMAIN outfiles
      /\ failed[t] = "cleanup" => (Exported(t) /\ isdir(TopPath(t)))

C2_Witness ==
  /\ pc = "main"
  /\ \E t \in TopNames :
       /\ failed[t] = "export"
       /\ Tree(disk0, TopPath(t)) # {TopPath(t)}
       /\ OkCallsOf(t) # {}

\* C3: a folder processed without folder-level error is gone from the disk and
\* its output file exists and holds one record per extracted image of the folder
C3_SuccessDeletedAndExported ==
  \A t \in TopNames :
    (Handled(t) /\ failed[t] = "none") =>
      /\ Gone(t)
      /\ Exported(t)
      /\ outfiles[output_file(t)].df.columns = Columns
      /\ RecordsOf(outfiles[output_file(t)].df.rows, OkCallsOf(t))

C3_Witness ==
  \E t \in TopNames :
    /\ Handled(t)
    /\ failed[t] = "none"
    /\ Len(outfiles[output_file(t)].df.rows) >= 2

\* the paths of the qualifying names in the immediate subdirectories of t
QualifyingPaths(t) ==
  { q \in DOMAIN disk0 :
      /\ Len(q) = 4
      /\ IsPrefix(TopPath(t), q)
      /\ disk0[SubSeq(q, 1, 3)] = "dir"
      /\ \E ext \in IMAGE_EXTENSIONS : endswith(lower(q[4]), ext) }

\* C4: when process_folder has returned, every qualifying image has been
\* tried, whichever of them failed; the table holds a record exactly for the
\* images whose extraction succeeded, with empty text where the service
\* reported no annotation
C4_ImageFailureIsolated ==
  pc = "save" =>
    /\ { c[1] : c \in CallsOf(folder) } = QualifyingPaths(folder)
    /\ RecordsOf(result_df.rows, OkCallsOf(folder))
    /\ \A c \in CallsOf(folder) : c[2] = "error" =>
         \A i \in 1..Len(result_df.rows) : result_df.rows[i].image_url # c[1]

C4_Witness ==
  /\ pc = "save"
  /\ \E c \in CallsOf(folder) : c[2] = "error" /\ disk0[c[1]] = "file"
  /\ \E i \in 1..Len(result_df.rows) : result_df.rows[i].raw_text = ""
  /\ \E i \in 1..Len(result_df.rows) : result_df.rows[i].raw_text # ""

AllAttemptedOnce ==
  /\ pc = "done"
  /\ \A t \in TopNames : attempts[t] = (IF WasDir(t) THEN 1 ELSE 0)

\* C5: once the data root is listed, execute comes to its end having entered
\* the try block of every top-level directory exactly once, whatever failed
C5_EveryFolderAttempted == (pc = "main") ~> AllAttemptedOnce

C5_Witness ==
  /\ pc = "done"
  /\ \E t, u \in TopNames :
       /\ t # u
       /\ failed[t] # "none"
       /\ failed[u] # "none"
       /\ failed[t] # failed[u]

\* the indices of the rows that are the first with their image_url
FirstIdx(rows) ==
  { i \in 1..Len(rows) : \A j \in 1..(i - 1) : rows[j].image_url # rows[i].image_url }

KthSmallest(S, k) == CHOOSE i \in S : Cardinality({ j \in S : j < i }) = k - 1

\* C6: clean_duplicates keeps, for each image_url, exactly the first row, in
\* the original order, so the result has no two rows with one image_url; a
\* second application changes nothing
C6_DedupKeepsFirst ==
  pc \in {"dedup_once", "dedup_twice"} =>
    LET rows == concat_rows(data_frames)
        out == result_df.rows
    IN /\ UniqueUrls(out)
       /\ Len(out) = Cardinality(FirstIdx(rows))
       /\ \A k \in 1..Len(out) : out[k] = rows[KthSmallest(FirstIdx(rows), k)]

C6_Witness ==
  /\ pc = "dedup_twice"
  /\ Len(result_df.rows) = 2
  /\ Len(data_frames) = 3
  /\ data_frames[1].rows[1].image_url = data_frames[3].rows[1].image_url
  /\ data_frames[1].rows[1].raw_text # data_frames[3].rows[1].raw_text

\* every table of the run: collected, deduplicated and written
AllRows ==
  UNION ( { { data_frames[i].rows[1] : i \in 1..Len(data_frames) } }
          \cup { { result_df.rows[i] : i \in 1..Len(result_df.rows) } }
          \cup { { outfiles[f].df.rows[i] : i \in 1..Len(outfiles[f].df.rows) } : f \in DOMAIN outfiles } )

\* C7: every record is for a file in an immediate subdirectory of a top-level
\* folder whose lower-cased name ends in .png, .jpg, .jpeg, .bmp or .gif
C7_OnlyImagesOfSubfolders ==
  \A r \in AllRows :
    /\ Len(r.image_url) = 4
    /\ r.image_url[1] = data_dir
    /\ disk0[SubSeq(r.image_url, 1, 3)] = "dir"
    /\ disk0[r.image_url] = "file"
    /\ \E ext \in { <<".", "p", "n", "g">>, <<".", "j", "p", "g">>, <<".", "j", "p", "e", "g">>,
                    <<".", "b", "m", "p">>, <<".", "g", "i", "f">> } :
         endswith(lower(r.image_url[4]), ext)

C7_Witness ==
  /\ \E f \in DOMAIN outfiles : \E i \in 1..Len(outfiles[f].df.rows) :
       outfiles[f].df.rows[i].image_url[4] = b_Jpeg
  /\ <<data_dir, A, y_png>> \in DOMAIN disk0
  /\ Handled(A)

\* C8: a top-level entry that is not a directory is skipped: no call of the
\* extractor, no output file, and the entry stays on disk as it was
C8_NonDirectorySkipped ==
  \A t \in TopNames :
    WasFile(t) =>
      /\ attempts[t] = 0
      /\ CallsOf(t) = {}
      /\ output_file(t) \notin DOMAIN outfiles
      /\ Untouched(t)

C8_Witness ==
  /\ pc = "done"
  /\ \E t \in TopNames : WasFile(t)
  /\ \E u \in TopNames : WasDir(u) /\ Gone(u)

\* the folder t of the example: s1 holds x.jpg and y.png, s2 holds y.PNG, the
\* three extractions succeeded and the table was written
ExampleExported(t) ==
  /\ <<data_dir, t, s2, y_PNG>> \in DOMAIN disk0
  /\ <<data_dir, t, s1, y_png>> \in DOMAIN disk0
  /\ t \in saved
  /\ Cardinality(OkCallsOf(t)) = 3

BaseNames(rows) == [i \in 1..Len(rows) |-> lower(rows[i].image_url[4])]

\* C9 as stated: the table of the example has 2 rows, one of them for y
C9_ExampleHasTwoRows ==
  \A t \in TopNames :
    ExampleExported(t) =>
      /\ Len(outfiles[output_file(t)].df.rows) = 2
      /\ Cardinality({ i \in 1..Len(outfiles[output_file(t)].df.rows) :
                         BaseNames(outfiles[output_file(t)].df.rows)[i] = y_png }) = 1

\* C9 amended: the table of the example has 3 rows, one for each of the three
\* files, s1/y.png and s2/y.PNG both among them; deduplication removes nothing
C9_ExampleHasThreeRows ==
  \A t \in TopNames :
    ExampleExported(t) =>
      /\ Len(outfiles[output_file(t)].df.rows) = 3
      /\ { outfiles[output_file(t)].df.rows[i].image_url : i \in 1..3 } =
           { <<data_dir, t, s1, x_jpg>>, <<data_dir, t, s1, y_png>>, <<data_dir, t, s2, y_PNG>> }

C9_Witness == \E t \in TopNames : ExampleExported(t) /\ Gone(t)

\* C10: a folder from which no image was extracted is exported all the same,
\* as a table with the two columns and no rows, and then deleted
C10_EmptyTableExportedAndDeleted ==
  \A t \in TopNames :
    (Handled(t) /\ failed[t] = "none" /\ OkCallsOf(t) = {}) =>
      /\ Exported(t)
      /\ outfiles[output_file(t)].df = [columns |-> <<"image_url", "raw_text">>, rows |-> <<>>]
      /\ Gone(t)

C10_Witness ==
  /\ \E t \in TopNames :
       /\ Handled(t) /\ failed[t] = "none" /\ Gone(t)
       /\ outfiles[output_file(t)].df.rows = <<>>
       /\ \E q \in Tree(disk0, TopPath(t)) : disk0[q] = "file" /\ q \in { c[1] : c \in CallsOf(t) }
  /\ \E t \in TopNames :
       /\ Handled(t) /\ failed[t] = "none" /\ Gone(t)
       /\ Tree(disk0, TopPath(t)) = {TopPath(t)}
====
